---- MODULE Spec2Model ----
(***************************************************************************)
(* Model of the data-ingestion / stream-processing pipeline:               *)
(*   services/data-ingestion/main.py     (DataIngestionService)            *)
(*   services/stream-processing/main.py  (StreamProcessor)                 *)
(* Python dicts are functions with string domains; a missing key is a key  *)
(* outside DOMAIN.  Tables of the two sinks are sequences of rows.         *)
(***************************************************************************)
EXTENDS Integers, Sequences, FiniteSets, TLC

VARIABLES
    pg,          \* Relational Sink: [uniswap_pools, token_prices] -> sequence of rows
    ch,          \* Time-Series Sink: [pool_metrics, protocol_metrics] -> sequence of points
    pgUp,        \* PostgreSQL reachable
    chUp,        \* ClickHouse reachable
    processed,   \* PROCESSED_MESSAGES{topic}
    procErrors,  \* PROCESSING_ERRORS{topic}
    last,        \* what the latest loop iteration of start_processing did
    deliveries,  \* number of loop iterations run so far
    log,         \* Message Bus: <<topic, partition>> -> sequence of acknowledged records
    published,   \* number of records acknowledged so far
    procState,   \* Stream Processor process: "down" | "running"
    position,    \* consumer position per <<topic, partition>>
    committed,   \* offset committed for stream_processor_group: None | Some(n)
    crashes,     \* number of processor crashes so far
    outcome,     \* per record (by publish number): "none" | "ok" | "failed" (latest dispatch)
    active,      \* handler invocations in progress: sequence of [idx, k (next record)]
    sources,     \* DataIngestionService.sources: sequence of DataSource
    service,     \* start_ingestion: "constructed" | "gathering" | "returned"
    pc,          \* per worker: "absent" | "start" | "fetch" | "publish" | "sleep" | "terminated"
    unit,        \* per worker: the request of the iteration it is at
    iters,       \* per worker: iterations begun
    elapsed,     \* per worker: the delay it sleeps for has elapsed
    sleepFor,    \* per worker: the delay passed to asyncio.sleep, <<seconds numerator, denominator>>
    lastIter,    \* per worker: how its latest finished iteration ended: "none" | "ok" | "error"
    requests,    \* INGESTION_REQUESTS{source}
    ingErrors,   \* INGESTION_ERRORS{source}
    sent,        \* per worker: records handed to the producer that reached the bus
    response,    \* per worker: the body its latest request returned
    timeline     \* timed run of one worker: [now, minutes, waited]

sinkVars == <<pg, ch, pgUp, chUp, processed, procErrors, last, deliveries>>
busVars == <<log, published, procState, position, committed, crashes, outcome, active>>
ingestVars == <<sources, service, pc, unit, iters, elapsed, sleepFor, lastIter,
                requests, ingErrors, sent, response, timeline>>
vars == <<sinkVars, busVars, ingestVars>>

----------------------------------------------------------------------------
(* Bounds *)

MaxDeliveries == 3
MaxPublished == 2
MaxCrashes == 1
MaxIterations == 2
MaxRateLimit == 2
MaxMinutes == 2

----------------------------------------------------------------------------
(* Message values *)

Topics == {"subgraph_data", "price_data", "tvl_data"}

\* the values the topic label of a counter takes: the subscribed topics, and a topic
\* for which self.processors has no entry
TopicLabels == Topics \cup {"gas_data"}

None == <<>>
Some(v) == <<v>>

\* dict.get(k) / dict.get(k, default)
DictGet(d, k, default) == IF k \in DOMAIN d THEN d[k] ELSE default

NumericStrings == {"500", "700", "900", "3000"}

\* float(str) / int(str) of a decimal string of the subgraph response
ParseNumber(s) ==
    CASE s = "500" -> 500
      [] s = "700" -> 700
      [] s = "900" -> 900
      [] s = "3000" -> 3000

PoolRecord(id, s0, s1, tvl, vol, fee) ==
    [id |-> id, token0 |-> [symbol |-> s0], token1 |-> [symbol |-> s1],
     totalValueLockedUSD |-> tvl, volumeUSD |-> vol, feeTier |-> fee]

PoolA1 == PoolRecord("0xa", "WETH", "USDC", "500", "900", "3000")
PoolA2 == PoolRecord("0xa", "WETH", "USDT", "700", "900", "500")
PoolB1 == PoolRecord("0xb", "WBTC", "WETH", "900", "500", "500")
\* a pool whose feeTier is not a number
PoolBad == PoolRecord("0xc", "DAI", "USDC", "500", "900", "n/a")

SubgraphValue(protocol, t, pools) ==
    [protocol |-> protocol, timestamp |-> t, data |-> [data |-> [pools |-> pools]]]

\* a GraphQL error response carries no 'data' member
SubgraphErrorValue(protocol, t) ==
    [protocol |-> protocol, timestamp |-> t, data |-> [errors |-> "bad query"]]

PriceValue(t, items) == [timestamp |-> t, data |-> items]

TvlValue(protocol, t, reading) == [protocol |-> protocol, timestamp |-> t, data |-> reading]

Message(topic, value) == [topic |-> topic, value |-> value]

\* The Envelopes the handlers are exercised with
Catalog ==
    << Message("subgraph_data", SubgraphValue("uniswap_v3", 1, <<PoolA1, PoolB1>>)),
       Message("subgraph_data", SubgraphValue("uniswap_v3", 1, <<PoolA2>>)),
       Message("subgraph_data", SubgraphValue("uniswap_v3", 2, <<PoolA1>>)),
       Message("subgraph_data", SubgraphErrorValue("uniswap_v3", 1)),
       Message("price_data", PriceValue(1,
           << [k |-> "bitcoin", v |-> [usd |-> 65000, usd_24h_change |-> 1]],
              [k |-> "ethereum", v |-> [usd |-> 3000, usd_market_cap |-> 9]] >>)),
       Message("price_data", PriceValue(1,
           << [k |-> "bitcoin", v |-> [usd |-> 66000, usd_24h_change |-> 2]] >>)),
       Message("price_data", PriceValue(2,
           << [k |-> "bitcoin", v |-> [usd |-> 65000, usd_24h_change |-> 1]] >>)),
       Message("tvl_data", TvlValue("uniswap-v3", 1, [tvl |-> 100, volume24h |-> 20, fees24h |-> 3])),
       Message("tvl_data", TvlValue("uniswap-v3", 2, [tvl |-> 100, volume24h |-> 20])),
       Message("tvl_data", TvlValue("aave-v3", 1, [tvl |-> 50, volume24h |-> 20, fees24h |-> 3])),
       Message("gas_data", [timestamp |-> 1, data |-> [gwei |-> 30]]),
       Message("price_data", PriceValue(3,
           << [k |-> "ethereum", v |-> [usd |-> 3000]],
              [k |-> "bitcoin", v |-> [usd_24h_change |-> 1]],
              [k |-> "solana", v |-> [usd |-> 150]] >>)),
       Message("subgraph_data", SubgraphValue("uniswap_v3", 3, <<PoolB1, PoolBad, PoolA1>>)) >>

----------------------------------------------------------------------------
(* Sink writers *)

\* an upsert that overwrites every column of the conflicting row
UpsertPoolWholeRow(tbl, row) ==
    IF \E i \in 1..Len(tbl) : tbl[i].pool_id = row.pool_id /\ tbl[i].timestamp = row.timestamp
    THEN [i \in 1..Len(tbl) |->
            IF tbl[i].pool_id = row.pool_id /\ tbl[i].timestamp = row.timestamp
            THEN row ELSE tbl[i]]
    ELSE Append(tbl, row)

\* INSERT INTO uniswap_pools ... ON CONFLICT (pool_id, timestamp) DO UPDATE SET
\*   tvl_usd = EXCLUDED.tvl_usd, volume_24h_usd = EXCLUDED.volume_24h_usd
UpsertPool(tbl, row) ==
    IF \E i \in 1..Len(tbl) : tbl[i].pool_id = row.pool_id /\ tbl[i].timestamp = row.timestamp
    THEN [i \in 1..Len(tbl) |->
            IF tbl[i].pool_id = row.pool_id /\ tbl[i].timestamp = row.timestamp
            THEN [tbl[i] EXCEPT !.tvl_usd = row.tvl_usd,
                                !.volume_24h_usd = row.volume_24h_usd]
            ELSE tbl[i]]
    ELSE Append(tbl, row)

\* a plain INSERT, with no conflict clause
InsertPriceAlways(tbl, row) == Append(tbl, row)

\* INSERT INTO token_prices ... ON CONFLICT (token_id, timestamp) DO UPDATE SET
\*   price_usd, market_cap_usd, volume_24h_usd, price_change_24h = EXCLUDED.*
UpsertPrice(tbl, row) ==
    IF \E i \in 1..Len(tbl) : tbl[i].token_id = row.token_id /\ tbl[i].timestamp = row.timestamp
    THEN [i \in 1..Len(tbl) |->
            IF tbl[i].token_id = row.token_id /\ tbl[i].timestamp = row.timestamp
            THEN [tbl[i] EXCEPT !.price_usd = row.price_usd,
                                !.market_cap_usd = row.market_cap_usd,
                                !.volume_24h_usd = row.volume_24h_usd,
                                !.price_change_24h = row.price_change_24h]
            ELSE tbl[i]]
    ELSE Append(tbl, row)

\* self.clickhouse_client.insert(table, [clickhouse_data]): a plain append
ClickhouseInsert(tbl, point) == Append(tbl, point)

\* _store_timeseries_data: the insert, with every exception caught and printed.
\* st is the handler's running state, chWorks whether this insert reaches ClickHouse.
StoreTimeseriesData(st, table, point, chWorks) ==
    IF chWorks
    THEN [st EXCEPT !.ch[table] = ClickhouseInsert(st.ch[table], point)]
    ELSE [st EXCEPT !.chFailed = TRUE]

----------------------------------------------------------------------------
(* Handlers.  A handler's running state st is                               *)
(*   [pg, ch, raised, pgFailed, chFailed];                                  *)
(* pgOk (chOk) is the number of PostgreSQL statements (ClickHouse inserts)  *)
(* of this invocation that reach the sink before it becomes unreachable.    *)

\* datetime.fromisoformat(data['timestamp']): keeps the full resolution of the
\* instant the worker stamped (instants are counted in ticks)
FromIsoformat(t) == t

Raise(st) == [st EXCEPT !.raised = TRUE]

PoolFieldsOk(pool) ==
    /\ {"id", "token0", "token1", "totalValueLockedUSD", "volumeUSD", "feeTier"} \subseteq DOMAIN pool
    /\ "symbol" \in DOMAIN pool.token0
    /\ "symbol" \in DOMAIN pool.token1
    /\ pool.totalValueLockedUSD \in NumericStrings
    /\ pool.volumeUSD \in NumericStrings
    /\ pool.feeTier \in NumericStrings

PairName(s0, s1) == <<s0, "/", s1>>

PoolRow(pool, timestamp) ==
    [pool_id |-> pool.id,
     pair_name |-> PairName(pool.token0.symbol, pool.token1.symbol),
     token0_symbol |-> pool.token0.symbol,
     token1_symbol |-> pool.token1.symbol,
     tvl_usd |-> ParseNumber(pool.totalValueLockedUSD),
     volume_24h_usd |-> ParseNumber(pool.volumeUSD),
     fee_tier |-> ParseNumber(pool.feeTier),
     timestamp |-> timestamp]

PoolPoint(pool, timestamp) ==
    [timestamp |-> timestamp,
     protocol_name |-> "uniswap_v3",
     pool_id |-> pool.id,
     pair_name |-> PairName(pool.token0.symbol, pool.token1.symbol),
     tvl_usd |-> ParseNumber(pool.totalValueLockedUSD),
     volume_24h_usd |-> ParseNumber(pool.volumeUSD),
     fee_tier |-> ParseNumber(pool.feeTier)]

\* one turn of the loop over pools_data['data']['pools'] (the i-th pool)
UniswapStep(st, pool, timestamp, i, pgOk, chOk) ==
    IF ~PoolFieldsOk(pool) THEN Raise(st)
    ELSE IF i > pgOk THEN [Raise(st) EXCEPT !.pgFailed = TRUE]
    ELSE StoreTimeseriesData(
            [st EXCEPT !.pg.uniswap_pools = UpsertPool(@, PoolRow(pool, timestamp))],
            "pool_metrics", PoolPoint(pool, timestamp), i <= chOk)

RECURSIVE UniswapLoop(_, _, _, _, _, _)
UniswapLoop(st, pools, timestamp, i, pgOk, chOk) ==
    IF i > Len(pools) \/ st.raised THEN st
    ELSE UniswapLoop(UniswapStep(st, pools[i], timestamp, i, pgOk, chOk),
                     pools, timestamp, i + 1, pgOk, chOk)

\* _process_uniswap_data
ProcessUniswapData(st, pools_data, timestamp, up, pgOk, chOk) ==
    IF "pools" \notin DOMAIN DictGet(pools_data, "data", <<>>) THEN st
    ELSE IF ~up THEN [Raise(st) EXCEPT !.pgFailed = TRUE]      \* db_pool.acquire()
    ELSE UniswapLoop(st, pools_data.data.pools, timestamp, 1, pgOk, chOk)

\* _process_subgraph_data
ProcessSubgraphData(st, data, up, pgOk, chOk) ==
    IF ~({"protocol", "timestamp", "data"} \subseteq DOMAIN data) THEN Raise(st)
    ELSE IF data.protocol = "uniswap_v3"
         THEN ProcessUniswapData(st, data.data, FromIsoformat(data.timestamp), up, pgOk, chOk)
         ELSE st

\* a row whose price column is filled from the 24h change
PriceRowChangeAsPrice(token_id, metrics, timestamp) ==
    [token_id |-> token_id,
     price_usd |-> DictGet(metrics, "usd_24h_change", None),
     market_cap_usd |-> DictGet(metrics, "usd_market_cap", None),
     volume_24h_usd |-> DictGet(metrics, "usd_24h_vol", None),
     price_change_24h |-> DictGet(metrics, "usd_24h_change", None),
     timestamp |-> timestamp]

PriceRow(token_id, metrics, timestamp) ==
    [token_id |-> token_id,
     price_usd |-> metrics.usd,
     market_cap_usd |-> DictGet(metrics, "usd_market_cap", None),
     volume_24h_usd |-> DictGet(metrics, "usd_24h_vol", None),
     price_change_24h |-> DictGet(metrics, "usd_24h_change", None),
     timestamp |-> timestamp]

\* one turn of the loop over price_data.items() (the i-th item)
PriceStep(st, item, timestamp, i, pgOk) ==
    IF "usd" \notin DOMAIN item.v THEN Raise(st)
    ELSE IF i > pgOk THEN [Raise(st) EXCEPT !.pgFailed = TRUE]
    ELSE [st EXCEPT !.pg.token_prices = UpsertPrice(@, PriceRow(item.k, item.v, timestamp))]

RECURSIVE PriceLoop(_, _, _, _, _)
PriceLoop(st, items, timestamp, i, pgOk) ==
    IF i > Len(items) \/ st.raised THEN st
    ELSE PriceLoop(PriceStep(st, items[i], timestamp, i, pgOk), items, timestamp, i + 1, pgOk)

\* the loop run inside `async with conn.transaction()`: a raise undoes its rows
ProcessPriceDataInTransaction(st, data, up, pgOk) ==
    IF ~({"timestamp", "data"} \subseteq DOMAIN data) THEN Raise(st)
    ELSE IF ~up THEN [Raise(st) EXCEPT !.pgFailed = TRUE]
    ELSE IF PriceLoop(st, data.data, FromIsoformat(data.timestamp), 1, pgOk).raised
         THEN Raise(st)
         ELSE PriceLoop(st, data.data, FromIsoformat(data.timestamp), 1, pgOk)

\* _process_price_data
ProcessPriceData(st, data, up, pgOk) ==
    IF ~({"timestamp", "data"} \subseteq DOMAIN data) THEN Raise(st)
    ELSE IF ~up THEN [Raise(st) EXCEPT !.pgFailed = TRUE]      \* db_pool.acquire()
    ELSE PriceLoop(st, data.data, FromIsoformat(data.timestamp), 1, pgOk)

\* a point whose fees column is filled from the volume
TvlPointFeesFromVolume(protocol, tvl_data, timestamp) ==
    [timestamp |-> timestamp,
     protocol_name |-> protocol,
     tvl_usd |-> DictGet(tvl_data, "tvl", 0),
     volume_24h_usd |-> DictGet(tvl_data, "volume24h", 0),
     fees_24h_usd |-> DictGet(tvl_data, "volume24h", 0)]

TvlPoint(protocol, tvl_data, timestamp) ==
    [timestamp |-> timestamp,
     protocol_name |-> protocol,
     tvl_usd |-> DictGet(tvl_data, "tvl", 0),
     volume_24h_usd |-> DictGet(tvl_data, "volume24h", 0),
     fees_24h_usd |-> DictGet(tvl_data, "fees24h", 0)]

\* _process_tvl_data
ProcessTvlData(st, data, chOk) ==
    IF ~({"protocol", "timestamp", "data"} \subseteq DOMAIN data) THEN Raise(st)
    ELSE StoreTimeseriesData(st, "protocol_metrics",
            TvlPoint(data.protocol, data.data, FromIsoformat(data.timestamp)), 1 <= chOk)

\* self.processors[message.topic](message.value)
RunHandler(st, m, up, pgOk, chOk) ==
    CASE m.topic = "subgraph_data" -> ProcessSubgraphData(st, m.value, up, pgOk, chOk)
      [] m.topic = "price_data" -> ProcessPriceData(st, m.value, up, pgOk)
      [] m.topic = "tvl_data" -> ProcessTvlData(st, m.value, chOk)
      [] OTHER -> Raise(st)

\* number of records of a message, i.e. of sink statements a handler may issue per sink
Records(m) ==
    CASE m.topic = "subgraph_data" ->
            IF "data" \in DOMAIN m.value.data /\ "pools" \in DOMAIN m.value.data.data
            THEN Len(m.value.data.data.pools) ELSE 0
      [] m.topic = "price_data" -> Len(m.value.data)
      [] OTHER -> 1

\* an except clause that prints the error without counting it
ErrorsAfterUncounted(raised, topic) == procErrors

\* PROCESSED_MESSAGES.labels(topic=...).inc(), reached when the handler returned
ProcessedAfter(raised, topic) ==
    IF raised THEN processed ELSE [processed EXCEPT ![topic] = @ + 1]

\* PROCESSING_ERRORS.labels(topic=...).inc() of the except clause
ErrorsAfter(raised, topic) ==
    IF raised THEN [procErrors EXCEPT ![topic] = @ + 1] ELSE procErrors

\* The body of the `for message in self.consumer` loop: run the handler, then count
\* the message in PROCESSED_MESSAGES, or, if the handler raised, in PROCESSING_ERRORS.
\* idx names the message in the history record `last`.
ProcessMessage(m, idx, pgOk, chOk) ==
    LET st0 == [pg |-> pg, ch |-> ch, raised |-> FALSE, pgFailed |-> FALSE, chFailed |-> FALSE]
        st  == RunHandler(st0, m, pgUp, pgOk, chOk)
    IN  /\ pg' = st.pg
        /\ ch' = st.ch
        /\ pgUp' = (pgUp /\ ~st.pgFailed)
        /\ chUp' = (chUp /\ ~st.chFailed)
        /\ processed' = ProcessedAfter(st.raised, m.topic)
        /\ procErrors' = ErrorsAfter(st.raised, m.topic)
        /\ last' = [idx |-> idx, topic |-> m.topic, raised |-> st.raised,
                    chLost |-> st.chFailed,
                    repeat |-> (last.idx = idx /\ ~last.raised /\ ~st.raised)]
        /\ deliveries' = deliveries + 1

\* what the sinks let through during one handler invocation
PgOkChoices(m) == IF pgUp THEN 0..Records(m) ELSE {0}
ChOkChoices(m) == IF chUp THEN 0..Records(m) ELSE {0}


\* the sinks and the counters of a processor that has handled nothing
NoDelivery == [idx |-> 0, topic |-> "none", raised |-> FALSE, chLost |-> FALSE,
               repeat |-> FALSE]

SinkInit ==
    /\ pg = [uniswap_pools |-> <<>>, token_prices |-> <<>>]
    /\ ch = [pool_metrics |-> <<>>, protocol_metrics |-> <<>>]
    /\ pgUp = TRUE
    /\ chUp = TRUE
    /\ processed = [t \in TopicLabels |-> 0]
    /\ procErrors = [t \in TopicLabels |-> 0]
    /\ last = NoDelivery
    /\ deliveries = 0

----------------------------------------------------------------------------
(* Message Bus and consumer group                                           *)

\* two partitions per topic
Partitions == {0, 1}
TopicPartitions == Topics \X Partitions

\* self.kafka_producer.send(topic, value=data): the record handed to the producer
ProducerRecord(topic, data) == [topic |-> topic, key |-> None, value |-> data]

\* the partitions the producer's partitioner may pick for a record: any partition
\* for a record without key, the key's own partition otherwise
PartitionsFor(record, keyPartition) ==
    IF record.key = None THEN Partitions ELSE {keyPartition}

BusInit ==
    /\ log = [tp \in TopicPartitions |-> <<>>]
    /\ published = 0
    /\ procState = "down"
    /\ position = [tp \in TopicPartitions |-> 0]
    /\ committed = [tp \in TopicPartitions |-> None]
    /\ crashes = 0
    /\ outcome = [n \in 1..MaxPublished |-> "none"]
    /\ active = <<>>


----------------------------------------------------------------------------
(* Ingestion service                                                        *)

Workers == {"the_graph", "coingecko", "defillama"}

\* a source as the commented-out entries build it: api_key=os.getenv(..., ""), which
\* is the empty string when the variable is not set
DataSource(name, rate_limit) == [name |-> name, rate_limit |-> rate_limit, api_key |-> ""]

\* the same source with its environment variable set
WithApiKey(source, key) == [source EXCEPT !.api_key = key]

\* _load_data_sources as shipped: every source is commented out
LoadDataSources == <<>>

\* the configurations the workers are exercised with: the shipped one, the
\* commented-out sources enabled (the TVL source alone; the subgraph source alone,
\* with a rate limit in requests per minute; the subgraph and the price source
\* together), and a source whose name start_ingestion does not know
RateLimits == 0..MaxRateLimit
Configs ==
    {LoadDataSources, <<DataSource("binance", 60)>>,
     <<WithApiKey(DataSource("defillama", 100), "key")>>,
     <<DataSource("the_graph", MaxRateLimit), DataSource("coingecko", MaxRateLimit)>>}
      \cup {<<DataSource("the_graph", r)>> : r \in RateLimits}

SourceNames == {sources[i].name : i \in 1..Len(sources)}
SourceOf(w) == sources[CHOOSE i \in 1..Len(sources) : sources[i].name = w]

\* the topic each worker publishes to
TopicOf(w) ==
    CASE w = "the_graph" -> "subgraph_data"
      [] w = "coingecko" -> "price_data"
      [] w = "defillama" -> "tvl_data"

\* a TVL worker that skips the last protocol of its list
UnitsOfShortList(w) ==
    CASE w = "the_graph" -> <<"uniswap_v3">>
      [] w = "coingecko" -> <<"prices">>
      [] w = "defillama" -> <<"uniswap-v3", "aave-v3">>

\* queries / the one price request / protocols: what one iteration fetches and publishes
UnitsOf(w) ==
    CASE w = "the_graph" -> <<"uniswap_v3">>
      [] w = "coingecko" -> <<"prices">>
      [] w = "defillama" -> <<"uniswap-v3", "aave-v3", "compound-v3">>

\* the bodies a request of a worker returns: the subgraph query asks for
\* pools(first: 10, ...), so a response lists any number of pools
Responses(w) ==
    CASE w = "the_graph" -> {[data |-> [pools |-> <<>>]],
                             [data |-> [pools |-> <<PoolA1, PoolB1>>]]}
      [] w = "coingecko" -> {[bitcoin |-> [usd |-> 65000]]}
      [] w = "defillama" -> {[tvl |-> 100]}

\* a subgraph and a TVL worker that publish the bare response and timestamp
EnvelopeValueWithoutProtocol(w, n) == [data |-> response[w], timestamp |-> "utcnow"]

\* the dict a worker passes to _publish_to_kafka for its n-th request
EnvelopeValue(w, n) ==
    IF w = "coingecko"
    THEN [data |-> response[w], timestamp |-> "utcnow"]
    ELSE [protocol |-> UnitsOf(w)[n], data |-> response[w], timestamp |-> "utcnow"]

\* rate_limit / 60 instead of 60 / rate_limit
SubgraphDelayInverted(source) == <<source.rate_limit, 60>>

\* asyncio.sleep arguments, in seconds, as <<numerator, denominator>>
SubgraphDelay(source) == <<60, source.rate_limit>>
PriceDelaySeconds == 30
TvlDelaySeconds == 300
ErrorDelaySeconds == 60

\* every worker paced by its source's rate limit
SuccessDelayFromRateLimit(w) == SubgraphDelay(SourceOf(w))

\* the delay a worker sleeps after an iteration that went through
SuccessDelay(w) ==
    CASE w = "the_graph" -> SubgraphDelay(SourceOf(w))
      [] w = "coingecko" -> <<PriceDelaySeconds, 1>>
      [] w = "defillama" -> <<TvlDelaySeconds, 1>>

ExceptionKinds == {"network", "parse", "publish", "zerodivision"}

\* an except clause that names the HTTP client's errors only
CatchesClientErrorsOnly(kind) == kind \in {"network", "parse"}

\* `except Exception as e:` of the worker loops
WorkerCatches(kind) == kind \in ExceptionKinds

\* future.get(timeout=10) is a blocking call made on the event loop's thread: while a
\* worker waits in it, no other coroutine of the loop runs
LoopFree == \A v \in Workers : pc[v] # "publish"

\* no timed run is under way
NoTimeline == [now |-> 0, minutes |-> 0, waited |-> FALSE]

IngestIdle ==
    /\ sources = LoadDataSources
    /\ service = "constructed"
    /\ pc = [w \in Workers |-> "absent"]
    /\ unit = [w \in Workers |-> 0]
    /\ iters = [w \in Workers |-> 0]
    /\ elapsed = [w \in Workers |-> FALSE]
    /\ sleepFor = [w \in Workers |-> <<0, 1>>]
    /\ lastIter = [w \in Workers |-> "none"]
    /\ requests = [w \in Workers |-> 0]
    /\ ingErrors = [w \in Workers |-> 0]
    /\ sent = [w \in Workers |-> <<>>]
    /\ response = [w \in Workers |-> None]
    /\ timeline = NoTimeline

\* start_ingestion: one task per source with a known name, then asyncio.gather, which
\* returns at once when there is no task
StartIngestion ==
    /\ service = "constructed"
    /\ pc' = [w \in Workers |-> IF w \in SourceNames THEN "start" ELSE "absent"]
    /\ service' = IF Workers \cap SourceNames = {} THEN "returned" ELSE "gathering"
    /\ UNCHANGED <<sinkVars, busVars, sources, unit, iters, elapsed, sleepFor, lastIter,
                   requests, ingErrors, sent, response, timeline>>

\* an except clause whose sleep grows with the number of errors counted
FailWithBackoff(w, kind) ==
    IF WorkerCatches(kind)
    THEN /\ ingErrors' = [ingErrors EXCEPT ![w] = @ + 1]
         /\ sleepFor' = [sleepFor EXCEPT ![w] = <<ErrorDelaySeconds * (ingErrors[w] + 1), 1>>]
         /\ lastIter' = [lastIter EXCEPT ![w] = "error"]
         /\ elapsed' = [elapsed EXCEPT ![w] = FALSE]
         /\ pc' = [pc EXCEPT ![w] = "sleep"]
    ELSE /\ pc' = [pc EXCEPT ![w] = "terminated"]
         /\ UNCHANGED <<ingErrors, sleepFor, lastIter, elapsed>>

\* the except clause of a worker loop: count the error and sleep 60 s; an exception
\* the clause does not catch ends the task
Fail(w, kind) ==
    IF WorkerCatches(kind)
    THEN /\ ingErrors' = [ingErrors EXCEPT ![w] = @ + 1]
         /\ sleepFor' = [sleepFor EXCEPT ![w] = <<ErrorDelaySeconds, 1>>]
         /\ lastIter' = [lastIter EXCEPT ![w] = "error"]
         /\ elapsed' = [elapsed EXCEPT ![w] = FALSE]
         /\ pc' = [pc EXCEPT ![w] = "sleep"]
    ELSE /\ pc' = [pc EXCEPT ![w] = "terminated"]
         /\ UNCHANGED <<ingErrors, sleepFor, lastIter, elapsed>>

\* top of `while True`: the first request of an iteration is issued
BeginIteration(w) ==
    /\ service = "gathering"
    /\ pc[w] = "start" \/ (pc[w] = "sleep" /\ elapsed[w])
    /\ LoopFree
    /\ iters[w] < MaxIterations
    /\ pc' = [pc EXCEPT ![w] = "fetch"]
    /\ unit' = [unit EXCEPT ![w] = 1]
    /\ iters' = [iters EXCEPT ![w] = @ + 1]
    /\ UNCHANGED <<sinkVars, busVars, sources, service, elapsed, sleepFor, lastIter,
                   requests, ingErrors, sent, response, timeline>>

\* the awaited request returns: with a response, which is handed to
\* _publish_to_kafka (send, then the blocking future.get), or with an exception
FetchReturn(w, res) ==
    /\ pc[w] = "fetch"
    /\ LoopFree
    /\ IF res = "ok"
       THEN /\ pc' = [pc EXCEPT ![w] = "publish"]
            /\ \E body \in Responses(w) : response' = [response EXCEPT ![w] = body]
            /\ UNCHANGED <<ingErrors, sleepFor, lastIter, elapsed>>
       ELSE /\ Fail(w, res)
            /\ UNCHANGED response
    /\ UNCHANGED <<sinkVars, busVars, sources, service, unit, iters, requests, sent,
                   timeline>>

SentRecord(w, acked) ==
    [record |-> ProducerRecord(TopicOf(w), EnvelopeValue(w, unit[w])),
     iter |-> iters[w], acked |-> acked]

\* the end of an iteration whose requests and publishes all went through:
\* INGESTION_REQUESTS is incremented, then the worker sleeps its poll delay
\* (60 / source.rate_limit raises ZeroDivisionError for a rate limit of 0)
FinishIteration(w) ==
    /\ requests' = [requests EXCEPT ![w] = @ + 1]
    /\ IF w = "the_graph" /\ SourceOf(w).rate_limit = 0
       THEN Fail(w, "zerodivision")
       ELSE /\ sleepFor' = [sleepFor EXCEPT ![w] = SuccessDelay(w)]
            /\ lastIter' = [lastIter EXCEPT ![w] = "ok"]
            /\ elapsed' = [elapsed EXCEPT ![w] = FALSE]
            /\ pc' = [pc EXCEPT ![w] = "sleep"]
            /\ UNCHANGED ingErrors

\* an except clause that prints the error and does not re-raise it
PublishSwallows(res) == FALSE

\* _publish_to_kafka: `except Exception as e: print(...); raise`, so whatever send or
\* future.get raises reaches the worker
PublishRaises(res) == res # "ack"

\* future.get(timeout=10) returns the record metadata, or raises (send failure, or
\* no acknowledgment within the timeout; the record may still reach the bus later)
PublishReturn(w, res) ==
    /\ pc[w] = "publish"
    /\ CASE res = "ack" ->
              sent' = [sent EXCEPT ![w] = Append(@, SentRecord(w, TRUE))]
         [] res = "error" ->
              UNCHANGED sent
         [] res = "timeout" ->
              \E landed \in BOOLEAN :
                 sent' = IF landed THEN [sent EXCEPT ![w] = Append(@, SentRecord(w, FALSE))]
                         ELSE sent
    /\ IF PublishRaises(res)
       THEN /\ Fail(w, "publish")
            /\ UNCHANGED <<unit, requests>>
       ELSE IF unit[w] < Len(UnitsOf(w))
            THEN /\ pc' = [pc EXCEPT ![w] = "fetch"]
                 /\ unit' = [unit EXCEPT ![w] = @ + 1]
                 /\ UNCHANGED <<requests, ingErrors, sleepFor, lastIter, elapsed>>
            ELSE /\ FinishIteration(w)
                 /\ UNCHANGED unit
    /\ UNCHANGED <<sinkVars, busVars, sources, service, iters, response, timeline>>

\* the delay of a sleeping worker elapses (time also passes while the loop is blocked)
TimerFire(w) ==
    /\ pc[w] = "sleep"
    /\ ~elapsed[w]
    /\ elapsed' = [elapsed EXCEPT ![w] = TRUE]
    /\ UNCHANGED <<sinkVars, busVars, sources, service, pc, unit, iters, sleepFor, lastIter,
                   requests, ingErrors, sent, response, timeline>>

IngestInit ==
    /\ SinkInit
    /\ BusInit
    /\ sources \in Configs
    /\ service = "constructed"
    /\ pc = [w \in Workers |-> "absent"]
    /\ unit = [w \in Workers |-> 0]
    /\ iters = [w \in Workers |-> 0]
    /\ elapsed = [w \in Workers |-> FALSE]
    /\ sleepFor = [w \in Workers |-> <<0, 1>>]
    /\ lastIter = [w \in Workers |-> "none"]
    /\ requests = [w \in Workers |-> 0]
    /\ ingErrors = [w \in Workers |-> 0]
    /\ sent = [w \in Workers |-> <<>>]
    /\ response = [w \in Workers |-> None]
    /\ timeline = NoTimeline

IngestNext ==
    \/ StartIngestion
    \/ \E w \in Workers : BeginIteration(w)
    \/ \E w \in Workers : \E res \in {"ok", "network", "parse"} : FetchReturn(w, res)
    \/ \E w \in Workers : \E res \in {"ack", "error", "timeout"} : PublishReturn(w, res)
    \/ \E w \in Workers : TimerFire(w)

IngestSpec == IngestInit /\ [][IngestNext]_vars

\* asyncio runs every coroutine that stays ready once the running one yields, timers
\* fire, requests and future.get return (with a result or at their timeout)
IngestFairSpec ==
    /\ IngestSpec
    /\ \A w \in Workers :
          /\ WF_vars(BeginIteration(w))
          /\ WF_vars(TimerFire(w))
          /\ WF_vars(\E res \in {"ok", "network", "parse"} : FetchReturn(w, res))
          /\ WF_vars(\E res \in {"ack", "error", "timeout"} : PublishReturn(w, res))

----------------------------------------------------------------------------
(* Timed runs of one worker whose requests and publishes all go through.    *)
(* Time is counted in ticks of 1/R second, R the rate limit of the worker's *)
(* source, so that a sleep of 60/R seconds is a whole number of ticks.      *)

TimedConfigs == {<<DataSource(w, r)>> : w \in Workers, r \in 1..MaxRateLimit}

\* how long the requests and publishes of one iteration take, in ticks
Durations == {0, 3, 10}

\* a delay of <<numerator, denominator>> seconds in ticks of 1/rate second
DelayTicks(delay, rate) == (delay[1] * rate) \div delay[2]

\* the observation window of timeline.minutes minutes, in ticks
Horizon(w) == 60 * timeline.minutes * SourceOf(w).rate_limit

\* one whole iteration of `while True` that begins at timeline.now, takes d ticks to
\* fetch and publish, increments INGESTION_REQUESTS inside the window and sleeps
\* (the records it publishes are not kept in a timed run)
TimedIteration(w, d) ==
    /\ service = "gathering"
    /\ timeline.minutes > 0
    /\ pc[w] \in {"start", "sleep"}
    /\ timeline.now + d <= Horizon(w)
    /\ FinishIteration(w)
    /\ timeline' = [timeline EXCEPT
                       !.now = @ + d + DelayTicks(sleepFor'[w], SourceOf(w).rate_limit),
                       !.waited = @ \/ d > 0]
    /\ UNCHANGED <<sinkVars, busVars, sources, service, unit, iters, sent, response>>

TimedInit ==
    /\ SinkInit
    /\ BusInit
    /\ sources \in TimedConfigs
    /\ service = "constructed"
    /\ pc = [w \in Workers |-> "absent"]
    /\ unit = [w \in Workers |-> 0]
    /\ iters = [w \in Workers |-> 0]
    /\ elapsed = [w \in Workers |-> FALSE]
    /\ sleepFor = [w \in Workers |-> <<0, 1>>]
    /\ lastIter = [w \in Workers |-> "none"]
    /\ requests = [w \in Workers |-> 0]
    /\ ingErrors = [w \in Workers |-> 0]
    /\ sent = [w \in Workers |-> <<>>]
    /\ response = [w \in Workers |-> None]
    /\ timeline \in {[now |-> 0, minutes |-> m, waited |-> FALSE] : m \in 1..MaxMinutes}

TimedNext ==
    \/ StartIngestion
    \/ \E w \in Workers : \E d \in Durations : TimedIteration(w, d)

TimedSpec == TimedInit /\ [][TimedNext]_vars

----------------------------------------------------------------------------
(* Handler-level specification: Envelopes delivered straight to the loop    *)
(* body, in any order and any number of times.                              *)

Deliver(i) ==
    /\ deliveries < MaxDeliveries
    /\ \E pgOk \in PgOkChoices(Catalog[i]), chOk \in ChOkChoices(Catalog[i]) :
          ProcessMessage(Catalog[i], i, pgOk, chOk)
    /\ UNCHANGED <<busVars, ingestVars>>

SinkPgFail == pgUp /\ pgUp' = FALSE /\ UNCHANGED <<pg, ch, chUp, processed, procErrors, last, deliveries>>
SinkPgRestore == ~pgUp /\ pgUp' = TRUE /\ UNCHANGED <<pg, ch, chUp, processed, procErrors, last, deliveries>>
SinkChFail == chUp /\ chUp' = FALSE /\ UNCHANGED <<pg, ch, pgUp, processed, procErrors, last, deliveries>>
SinkChRestore == ~chUp /\ chUp' = TRUE /\ UNCHANGED <<pg, ch, pgUp, processed, procErrors, last, deliveries>>

PgFail == SinkPgFail /\ UNCHANGED <<busVars, ingestVars>>
PgRestore == SinkPgRestore /\ UNCHANGED <<busVars, ingestVars>>
ChFail == SinkChFail /\ UNCHANGED <<busVars, ingestVars>>
ChRestore == SinkChRestore /\ UNCHANGED <<busVars, ingestVars>>

HandlerInit == SinkInit /\ BusInit /\ IngestIdle

\* the well-formed Envelopes of the subscribed topics
HandlerSet == 1..10

HandlerNext ==
    \/ \E i \in HandlerSet : Deliver(i)
    \/ PgFail
    \/ PgRestore
    \/ ChFail
    \/ ChRestore

HandlerSpec == HandlerInit /\ [][HandlerNext]_vars

----------------------------------------------------------------------------
(* Field-level specification: the loop body run on Envelopes that collide   *)
(* on a natural key, lack fields, carry a malformed field or an unknown     *)
(* topic, while both sinks stay reachable.                                  *)

FieldSet == {1, 2, 3, 5, 6, 9, 11, 12, 13}

Handle(i) ==
    /\ deliveries < MaxDeliveries
    /\ pgUp /\ chUp
    /\ ProcessMessage(Catalog[i], i, Records(Catalog[i]), Records(Catalog[i]))
    /\ UNCHANGED <<busVars, ingestVars>>

FieldNext == \E i \in FieldSet : Handle(i)

FieldSpec == HandlerInit /\ [][FieldNext]_vars


----------------------------------------------------------------------------
(* Stream Processor on the Message Bus (Spec)                               *)

\* the Envelopes published to the bus in this specification
PublishSet == {6, 8, 9}

\* _publish_to_kafka, as the bus sees it: the record of Catalog[i] is acknowledged
\* in one of the partitions the partitioner may pick
Publish(i) ==
    /\ published < MaxPublished
    /\ LET m == Catalog[i]
           r == ProducerRecord(m.topic, m.value)
       IN  \E p \in PartitionsFor(r, 0) :
              log' = [log EXCEPT ![<<m.topic, p>>] =
                         Append(@, [idx |-> i, seq |-> published + 1, key |-> r.key])]
    /\ published' = published + 1
    /\ UNCHANGED <<sinkVars, ingestVars, procState, position, committed, crashes, outcome,
                   active>>

\* a start that connects to PostgreSQL only and leaves the ClickHouse client for later
InitConnectsPostgresOnly(pgReachable, chReachable) == pgReachable

\* _init_database_connections returns: asyncpg.create_pool opened its connections and
\* clickhouse_connect.get_client reached the server (either raises otherwise)
InitDatabaseConnections(pgReachable, chReachable) == pgReachable /\ chReachable

\* auto_offset_reset='latest': where a partition without committed offset is read from
ResetOffset(tp) == Len(log[tp])

\* start_processing up to the first poll: _init_database_connections (raises, and
\* the process exits, unless both stores answer), then the group is joined and every
\* partition is read from its committed offset, or from the reset offset
StartProcessing ==
    /\ procState = "down"
    /\ InitDatabaseConnections(pgUp, chUp)
    /\ procState' = "running"
    /\ position' = [tp \in TopicPartitions |->
                      IF committed[tp] # None THEN committed[tp][1] ELSE ResetOffset(tp)]
    /\ UNCHANGED <<sinkVars, ingestVars, log, published, committed, crashes, outcome, active>>

\* one turn of `for message in self.consumer`: the next record of some partition is
\* yielded (its position advances) and the loop body runs on it
Dispatch(tp) ==
    /\ procState = "running"
    /\ deliveries < MaxDeliveries
    /\ position[tp] < Len(log[tp])
    /\ LET r == log[tp][position[tp] + 1]
       IN  /\ \E pgOk \in PgOkChoices(Catalog[r.idx]), chOk \in ChOkChoices(Catalog[r.idx]) :
                 ProcessMessage(Catalog[r.idx], r.idx, pgOk, chOk)
           /\ outcome' = [outcome EXCEPT ![r.seq] = IF last'.raised THEN "failed" ELSE "ok"]
    /\ position' = [position EXCEPT ![tp] = @ + 1]
    /\ UNCHANGED <<ingestVars, log, published, procState, committed, crashes, active>>

\* enable_auto_commit=True: between two turns of the loop the consumer commits the
\* positions of all its partitions
AutoCommit ==
    /\ procState = "running"
    /\ committed # [tp \in TopicPartitions |-> Some(position[tp])]
    /\ committed' = [tp \in TopicPartitions |-> Some(position[tp])]
    /\ UNCHANGED <<sinkVars, ingestVars, log, published, procState, position, crashes, outcome,
                   active>>

\* the process dies: positions and the process-wide counters are lost, committed
\* offsets and the stores are kept
Crash ==
    /\ procState = "running"
    /\ crashes < MaxCrashes
    /\ procState' = "down"
    /\ crashes' = crashes + 1
    /\ position' = [tp \in TopicPartitions |-> 0]
    /\ processed' = [t \in TopicLabels |-> 0]
    /\ procErrors' = [t \in TopicLabels |-> 0]
    /\ UNCHANGED <<pg, ch, pgUp, chUp, last, deliveries, log, published, committed, outcome,
                   active, ingestVars>>

Init == SinkInit /\ BusInit /\ IngestIdle

Next ==
    \/ \E i \in PublishSet : Publish(i)
    \/ StartProcessing
    \/ \E tp \in TopicPartitions : Dispatch(tp)
    \/ AutoCommit
    \/ Crash
    \/ PgFail
    \/ PgRestore
    \/ ChRestore

Spec == Init /\ [][Next]_vars

----------------------------------------------------------------------------
(* The loop of start_processing with handlers run record by record           *)
(* (LoopSpec): a message is pulled, its handler writes one record per step,  *)
(* then the message is counted.                                              *)

\* a loop that hands each message to asyncio.create_task and pulls the next one
LoopSpawnsTasks == FALSE

\* `await self.processors[message.topic](message.value)`: the loop is suspended
\* until the handler has returned or raised
LoopAwaitsHandler == TRUE

\* a loop without try/except: the handler's exception ends start_processing
ProcStateAfterUncaught(raised) == IF raised THEN "down" ELSE "running"

\* `except Exception as e:` inside the for loop: the loop goes on
ProcStateAfter(raised) == "running"

\* the Envelopes pulled in this specification
LoopSet == {1, 5, 8, 12}

\* the handler of m writes its records one by one (a pool or price Envelope with
\* records); any other message is handled in one step
Stepwise(m) == m.topic \in {"subgraph_data", "price_data"} /\ Records(m) >= 1

\* for message in self.consumer: the next message is yielded
Pull(i) ==
    /\ procState = "running"
    /\ LoopAwaitsHandler => active = <<>>
    /\ deliveries + Len(active) < MaxDeliveries
    /\ active' = Append(active, [idx |-> i, k |-> 1])
    /\ UNCHANGED <<sinkVars, ingestVars, log, published, procState, position, committed,
                   crashes, outcome>>

\* what the a-th handler in progress does next: its k-th record, or all of it
HandlerStepResult(a) ==
    LET m == Catalog[active[a].idx]
        k == active[a].k
        st0 == [pg |-> pg, ch |-> ch, raised |-> FALSE, pgFailed |-> FALSE, chFailed |-> FALSE]
        pgOk == IF pgUp THEN Records(m) ELSE 0
        chOk == IF chUp THEN Records(m) ELSE 0
    IN  IF ~Stepwise(m) THEN RunHandler(st0, m, pgUp, pgOk, chOk)
        ELSE IF m.topic = "price_data"
             THEN PriceStep(st0, m.value.data[k], FromIsoformat(m.value.timestamp), k, pgOk)
             ELSE UniswapStep(st0, m.value.data.data.pools[k],
                              FromIsoformat(m.value.timestamp), k, pgOk, chOk)

\* one step of a handler in progress; when it was the last one (or it raised) the
\* loop body counts the message
HandlerStep(a) ==
    LET m == Catalog[active[a].idx]
        st == HandlerStepResult(a)
        done == st.raised \/ ~Stepwise(m) \/ active[a].k >= Records(m)
    IN  /\ pg' = st.pg
        /\ ch' = st.ch
        /\ UNCHANGED <<pgUp, chUp>>
        /\ IF done
           THEN /\ active' = [j \in 1..(Len(active) - 1) |->
                                 IF j < a THEN active[j] ELSE active[j + 1]]
                /\ processed' = ProcessedAfter(st.raised, m.topic)
                /\ procErrors' = ErrorsAfter(st.raised, m.topic)
                /\ last' = [idx |-> active[a].idx, topic |-> m.topic, raised |-> st.raised,
                            chLost |-> st.chFailed, repeat |-> FALSE]
                /\ deliveries' = deliveries + 1
                /\ procState' = ProcStateAfter(st.raised)
           ELSE /\ active' = [active EXCEPT ![a].k = @ + 1]
                /\ UNCHANGED <<processed, procErrors, last, deliveries, procState>>
        /\ UNCHANGED <<ingestVars, log, published, position, committed, crashes, outcome>>

LoopNext ==
    \/ StartProcessing
    \/ \E i \in LoopSet : Pull(i)
    \/ \E a \in 1..Len(active) : HandlerStep(a)
    \/ PgFail
    \/ PgRestore
    \/ ChFail
    \/ ChRestore

LoopSpec == Init /\ [][LoopNext]_vars

----------------------------------------------------------------------------
(* Claims about the handlers and the sinks (HandlerSpec)                    *)

PriceKey(r) == <<r.token_id, r.timestamp>>
PoolKey(r) == <<r.pool_id, r.timestamp>>

RowsWithPriceKey(k) == {i \in 1..Len(pg.token_prices) : PriceKey(pg.token_prices[i]) = k}
RowsWithPoolKey(k) == {i \in 1..Len(pg.uniswap_pools) : PoolKey(pg.uniswap_pools[i]) = k}

\* the natural keys the Envelope Catalog[idx] writes to the Relational Sink
PriceKeysOf(idx) ==
    LET v == Catalog[idx].value
    IN  {<<v.data[n].k, FromIsoformat(v.timestamp)>> : n \in 1..Len(v.data)}
PoolKeysOf(idx) ==
    LET v == Catalog[idx].value
    IN  IF v.protocol = "uniswap_v3" /\ "data" \in DOMAIN v.data
        THEN {<<v.data.data.pools[n].id, FromIsoformat(v.timestamp)>> :
                 n \in 1..Len(v.data.data.pools)}
        ELSE {}

\* C1: after any sequence of deliveries to the price and pool handlers the
\* Relational Sink holds at most one row per (token_id, timestamp) and per
\* (pool_id, timestamp); after the same Envelope was handled twice in a row there
\* is exactly one row for each entity of that Envelope.
C1_RelationalKeysUnique ==
    /\ \A i, j \in 1..Len(pg.token_prices) :
          i # j => PriceKey(pg.token_prices[i]) # PriceKey(pg.token_prices[j])
    /\ \A i, j \in 1..Len(pg.uniswap_pools) :
          i # j => PoolKey(pg.uniswap_pools[i]) # PoolKey(pg.uniswap_pools[j])
    /\ (last.repeat /\ last.topic = "price_data") =>
          \A k \in PriceKeysOf(last.idx) : Cardinality(RowsWithPriceKey(k)) = 1
    /\ (last.repeat /\ last.topic = "subgraph_data") =>
          \A k \in PoolKeysOf(last.idx) : Cardinality(RowsWithPoolKey(k)) = 1

\* a price Envelope and a pool Envelope have each been handled, the latest Envelope
\* twice in a row, and its rows are there
C1_Witness ==
    /\ last.repeat
    /\ last.topic = "price_data"
    /\ PriceKeysOf(last.idx) # {}
    /\ Len(pg.uniswap_pools) > 0

\* C2: handling an Envelope that was just handled (neither handling raised or lost a
\* write) leaves the Relational Sink and the Time-Series Sink as they were.
C2_RedeliveryIdempotent ==
    [][(deliveries' = deliveries + 1 /\ last'.repeat /\ ~last.chLost /\ ~last'.chLost)
          => (pg' = pg /\ ch' = ch)]_vars

\* C5: a message is counted in processed_total only if every write its handler
\* attempted reached its sink.
C5_ProcessedOnlyIfAllWritten ==
    [][\A t \in Topics : processed'[t] > processed[t] => ~last'.chLost]_vars

----------------------------------------------------------------------------
(* Claims about the Stream Processor on the bus (Spec)                      *)

Offsets(tp) == 1..Len(log[tp])

\* C3: while the Relational Sink is unreachable and the processor is running, no
\* message is dispatched (no position moves) and no committed offset advances.
C3_PausedWhileSinkDown ==
    [][(procState = "running" /\ procState' = "running" /\ ~pgUp)
          => (position' = position /\ committed' = committed)]_vars

\* C4: the committed offset of a partition never lies past a record whose latest
\* dispatch ended with the handler raising.
C4_CommittedNotPastFailed ==
    \A tp \in TopicPartitions : \A n \in Offsets(tp) :
        (committed[tp] # None /\ n <= committed[tp][1])
            => outcome[log[tp][n].seq] # "failed"

\* the entity an Envelope is about
EntityOf(idx) ==
    LET m == Catalog[idx]
    IN  IF "protocol" \in DOMAIN m.value THEN <<m.topic, m.value.protocol>> ELSE <<m.topic>>

\* C8: of two records published for the same entity, the later one is never
\* dispatched while the earlier one still waits, undispatched, ahead of the consumer.
C8_SameEntityInPublishOrder ==
    procState = "running" =>
        \A tp1, tp2 \in TopicPartitions : \A n1 \in Offsets(tp1), n2 \in Offsets(tp2) :
            LET r1 == log[tp1][n1]
                r2 == log[tp2][n2]
            IN  (EntityOf(r1.idx) = EntityOf(r2.idx) /\ r1.seq < r2.seq
                    /\ outcome[r2.seq] # "none")
                  => ~(outcome[r1.seq] = "none" /\ n1 > position[tp1])

\* C9: the consumer never stands past an acknowledged record that was not dispatched
\* (a record the position has passed is never read again by this group unless an
\* older offset was committed, and committed offsets are positions).
C9_NoAckedRecordSkipped ==
    procState = "running" =>
        \A tp \in TopicPartitions : \A n \in Offsets(tp) :
            n <= position[tp] => outcome[log[tp][n].seq] # "none"

----------------------------------------------------------------------------
(* Claims about the Ingestion Workers (IngestSpec, IngestFairSpec)          *)

RateLimitOf(w) == SourceOf(w).rate_limit

\* C6: a worker whose poll delay has elapsed can start its next iteration, whatever
\* the other workers are doing.
C6_ElapsedWorkerCanStart ==
    \A w \in Workers :
        (service = "gathering" /\ pc[w] = "sleep" /\ elapsed[w] /\ iters[w] < MaxIterations)
            => ENABLED BeginIteration(w)

\* C7: no worker task ever ends, and a worker sleeping after a failed iteration
\* issues another request (as long as the model lets it begin an iteration).
C7_WorkerSurvivesFailures ==
    /\ [](\A w \in Workers : pc[w] # "terminated")
    /\ \A w \in Workers :
          (pc[w] = "sleep" /\ lastIter[w] = "error" /\ iters[w] < MaxIterations)
              ~> (pc[w] = "fetch")

\* a worker whose latest iteration failed has issued its next request
C7_Witness ==
    \E w \in Workers : pc[w] = "fetch" /\ lastIter[w] = "error" /\ ingErrors[w] > 0

WindowOver(w) == w \in SourceNames /\ timeline.minutes > 0 /\ timeline.now > Horizon(w)

C12_ErrorWaitIsPollInterval ==
    [][\A w \in Workers :
          (pc[w] \in {"fetch", "publish"} /\ pc'[w] = "sleep" /\ lastIter'[w] = "error"
             /\ RateLimitOf(w) >= 1)
            => /\ ingErrors'[w] = ingErrors[w] + 1
               /\ sleepFor'[w][1] * SuccessDelay(w)[2] = SuccessDelay(w)[1] * sleepFor'[w][2]]_vars

\* C12 as amended: a failed iteration increments errors_total and is followed by a
\* wait of 60 s whatever the source, after a first failure as after any later one.
C12_ErrorWaitIsSixtySeconds ==
    [][\A w \in Workers :
          (pc[w] \in {"fetch", "publish"} /\ pc'[w] = "sleep" /\ lastIter'[w] = "error")
            => /\ ingErrors'[w] = ingErrors[w] + 1
               /\ sleepFor'[w][1] = 60 * sleepFor'[w][2]
               /\ ~elapsed'[w]]_vars

\* a worker sleeps after its second failure in a row
C12_Witness ==
    \E w \in Workers :
        pc[w] = "sleep" /\ lastIter[w] = "error" /\ ingErrors[w] = 2 /\ requests[w] = 0

\* C13: a publish returns normally only when the record was acknowledged; a publish
\* that raises makes the worker count an error, sleep, and not count the iteration.
C13_PublishFailureNotCounted ==
    [][\A w \in Workers :
          (pc[w] = "publish" /\ pc'[w] # "publish") =>
              IF pc'[w] = "fetch" \/ requests'[w] > requests[w]
              THEN /\ Len(sent'[w]) = Len(sent[w]) + 1
                   /\ sent'[w][Len(sent'[w])].acked
              ELSE /\ ingErrors'[w] = ingErrors[w] + 1
                   /\ requests'[w] = requests[w]
                   /\ pc'[w] = "sleep"
                   /\ lastIter'[w] = "error"]_vars

\* a worker sleeps after a publish that raised: an error is counted, no request is,
\* and the one record it sent was not acknowledged in time
C13_Witness ==
    \E w \in Workers :
        /\ pc[w] = "sleep" /\ lastIter[w] = "error"
        /\ ingErrors[w] = 1 /\ requests[w] = 0
        /\ Len(sent[w]) = 1 /\ ~sent[w][1].acked

----------------------------------------------------------------------------
(* Claims about the fields the handlers read and write (FieldSpec)          *)

\* the loop body has just run on an Envelope
Handled == deliveries' = deliveries + 1

\* the pools and the price items of the Envelope Catalog[idx]
PoolsOf(idx) ==
    LET v == Catalog[idx].value
    IN  IF "data" \in DOMAIN v.data THEN v.data.data.pools ELSE <<>>
ItemsOf(idx) == Catalog[idx].value.data

C15_CorruptFieldTolerated ==
    (last.idx # 0 /\ last.topic \in Topics) =>
        /\ ~last.raised
        /\ last.topic = "price_data" =>
              \A k \in PriceKeysOf(last.idx) : Cardinality(RowsWithPriceKey(k)) = 1
        /\ last.topic = "subgraph_data" =>
              \A k \in PoolKeysOf(last.idx) : Cardinality(RowsWithPoolKey(k)) = 1

\* C16: handling a TVL Envelope whose payload lacks fees24h does not raise, appends
\* exactly one protocol_metrics point, with fees_24h_usd = 0 and the payload's tvl and
\* volume24h, and counts the message in PROCESSED_MESSAGES.
C16_MissingFeesStoredAsZero ==
    [][(Handled /\ last'.topic = "tvl_data"
          /\ "fees24h" \notin DOMAIN Catalog[last'.idx].value.data) =>
          LET v == Catalog[last'.idx].value
          IN  /\ ~last'.raised
              /\ ch'.protocol_metrics =
                    Append(ch.protocol_metrics,
                           [timestamp |-> v.timestamp, protocol_name |-> v.protocol,
                            tvl_usd |-> v.data.tvl, volume_24h_usd |-> v.data.volume24h,
                            fees_24h_usd |-> 0])
              /\ ch'.pool_metrics = ch.pool_metrics
              /\ pg' = pg
              /\ processed'["tvl_data"] = processed["tvl_data"] + 1
              /\ procErrors' = procErrors]_vars

\* the TVL Envelope without fees24h was handled and its point is there
C16_Witness ==
    /\ last.idx = 9
    /\ ~last.raised
    /\ \E i \in 1..Len(ch.protocol_metrics) :
          /\ ch.protocol_metrics[i].timestamp = 2
          /\ ch.protocol_metrics[i].fees_24h_usd = 0
          /\ ch.protocol_metrics[i].volume_24h_usd = 20

\* C17: handling a price Envelope with timestamp T whose items all carry usd leaves,
\* for every asset a of it, exactly one row keyed (a, T), with price_usd the item's
\* usd and null for each absent metric, and writes no Time-Series point.
C17_PriceRowPerAsset ==
    [][(Handled /\ last'.topic = "price_data"
          /\ \A n \in 1..Len(ItemsOf(last'.idx)) : "usd" \in DOMAIN ItemsOf(last'.idx)[n].v) =>
          /\ ~last'.raised
          /\ ch' = ch
          /\ \A n \in 1..Len(ItemsOf(last'.idx)) :
                LET item == ItemsOf(last'.idx)[n]
                    tbl == pg'.token_prices
                    rows == {i \in 1..Len(tbl) :
                               /\ tbl[i].token_id = item.k
                               /\ tbl[i].timestamp = Catalog[last'.idx].value.timestamp}
                IN  /\ Cardinality(rows) = 1
                    /\ \A i \in rows :
                          /\ tbl[i].price_usd = item.v.usd
                          /\ tbl[i].market_cap_usd = DictGet(item.v, "usd_market_cap", None)
                          /\ tbl[i].volume_24h_usd = DictGet(item.v, "usd_24h_vol", None)
                          /\ tbl[i].price_change_24h = DictGet(item.v, "usd_24h_change", None)]_vars

\* the price Envelope with two assets and absent metrics was handled: bitcoin's row
\* has its price and no market cap, and no Time-Series point exists
C17_Witness ==
    /\ last.idx = 5
    /\ ~last.raised
    /\ \E i \in 1..Len(pg.token_prices) :
          /\ pg.token_prices[i].token_id = "bitcoin"
          /\ pg.token_prices[i].timestamp = 1
          /\ pg.token_prices[i].price_usd = 65000
          /\ pg.token_prices[i].market_cap_usd = None
    /\ ch.pool_metrics = <<>> /\ ch.protocol_metrics = <<>>

\* the bucket an instant falls in once truncated (instants 0..3 share a bucket)
Truncate(t) == t \div 4

\* C18: every pool row has its Time-Series point, one per timestamp, while the
\* Relational Sink holds one row per (pool, truncated timestamp).
C18_OneRowPerTruncatedTimestamp ==
    /\ \A i \in 1..Len(pg.uniswap_pools) :
          \E j \in 1..Len(ch.pool_metrics) :
             /\ ch.pool_metrics[j].pool_id = pg.uniswap_pools[i].pool_id
             /\ ch.pool_metrics[j].timestamp = pg.uniswap_pools[i].timestamp
    /\ \A i, j \in 1..Len(pg.uniswap_pools) :
          (i # j /\ pg.uniswap_pools[i].pool_id = pg.uniswap_pools[j].pool_id)
              => Truncate(pg.uniswap_pools[i].timestamp) # Truncate(pg.uniswap_pools[j].timestamp)

\* the row keyed like `new` before and after the latest handling
OldPoolRows(new) ==
    {i \in 1..Len(pg.uniswap_pools) : PoolKey(pg.uniswap_pools[i]) = PoolKey(new)}
NewPoolRows(new) ==
    {i \in 1..Len(pg'.uniswap_pools) : PoolKey(pg'.uniswap_pools[i]) = PoolKey(new)}
NewPriceRows(new) ==
    {i \in 1..Len(pg'.token_prices) : PriceKey(pg'.token_prices[i]) = PriceKey(new)}

\* a price Envelope leaves, for each of its items, the row it would write alone
PriceRowsOverwritten ==
    (Handled /\ last'.topic = "price_data" /\ ~last'.raised) =>
        \A n \in 1..Len(ItemsOf(last'.idx)) :
            LET item == ItemsOf(last'.idx)[n]
                new == PriceRow(item.k, item.v, Catalog[last'.idx].value.timestamp)
            IN  /\ Cardinality(NewPriceRows(new)) = 1
                /\ \A i \in NewPriceRows(new) : pg'.token_prices[i] = new

\* C19 as stated: after an Envelope was handled, each row it wrote equals the row it
\* would write into an empty table, in every column, whatever row was there before.
C19_ConflictOverwritesEveryColumn ==
    [][/\ PriceRowsOverwritten
       /\ (Handled /\ last'.topic = "subgraph_data" /\ ~last'.raised) =>
             \A n \in 1..Len(PoolsOf(last'.idx)) :
                 LET new == PoolRow(PoolsOf(last'.idx)[n], Catalog[last'.idx].value.timestamp)
                 IN  /\ Cardinality(NewPoolRows(new)) = 1
                     /\ \A i \in NewPoolRows(new) : pg'.uniswap_pools[i] = new]_vars

\* C19 as amended: a price row is overwritten in all four metric columns; a pool row
\* that was there keeps its pair_name, token symbols and fee_tier and takes the
\* tvl_usd and volume_24h_usd of the later Envelope.
C19_ConflictOverwritesMetrics ==
    [][/\ PriceRowsOverwritten
       /\ (Handled /\ last'.topic = "subgraph_data" /\ ~last'.raised) =>
             \A n \in 1..Len(PoolsOf(last'.idx)) :
                 LET new == PoolRow(PoolsOf(last'.idx)[n], Catalog[last'.idx].value.timestamp)
                     old == pg.uniswap_pools[CHOOSE i \in OldPoolRows(new) : TRUE]
                 IN  /\ Cardinality(NewPoolRows(new)) = 1
                     /\ \A i \in NewPoolRows(new) :
                           pg'.uniswap_pools[i] =
                              IF OldPoolRows(new) = {} THEN new
                              ELSE [old EXCEPT !.tvl_usd = new.tvl_usd,
                                               !.volume_24h_usd = new.volume_24h_usd]]_vars

\* the second Envelope for pool 0xa at instant 1 was handled after the first: the row
\* has the later tvl and the earlier fee tier
C19_Witness ==
    /\ last.idx = 2
    /\ \E i \in 1..Len(pg.uniswap_pools) :
          /\ pg.uniswap_pools[i].pool_id = "0xa"
          /\ pg.uniswap_pools[i].timestamp = 1
          /\ pg.uniswap_pools[i].tvl_usd = 700
          /\ pg.uniswap_pools[i].fee_tier = 3000

----------------------------------------------------------------------------
(* Claims about the Envelopes of an iteration (IngestSpec)                  *)

\* the records worker w published in the iteration it has just finished
EnvelopesOfIteration(w) == {i \in 1..Len(sent[w]) : sent[w][i].iter = iters[w]}

\* every Envelope of the iteration carries the worker's topic and a timestamp
TaggedAndStamped(w) ==
    \A i \in EnvelopesOfIteration(w) :
        /\ sent[w][i].record.topic = TopicOf(w)
        /\ "timestamp" \in DOMAIN sent[w][i].record.value

FinishedOk(w) == pc[w] = "sleep" /\ lastIter[w] = "ok"

\* C20 as stated: a successful iteration publishes one Envelope per pool returned
\* (pool worker), one per price snapshot (price worker), one per protocol reading
\* (TVL worker), each with the worker's topic and a timestamp.
C20_OneEnvelopePerPool ==
    \A w \in Workers :
        FinishedOk(w) =>
            /\ TaggedAndStamped(w)
            /\ w = "the_graph" =>
                  Cardinality(EnvelopesOfIteration(w)) = Len(response[w].data.pools)
            /\ w = "coingecko" => Cardinality(EnvelopesOfIteration(w)) = 1
            /\ w = "defillama" => Cardinality(EnvelopesOfIteration(w)) = 3

\* C20 as amended: a successful iteration of the pool worker publishes one Envelope
\* per subgraph query, carrying the whole response with however many pools it lists;
\* the price worker publishes one Envelope, the TVL worker one per protocol; each
\* with the worker's topic and a timestamp.
C20_OneEnvelopePerQuery ==
    \A w \in Workers :
        FinishedOk(w) =>
            /\ TaggedAndStamped(w)
            /\ w = "the_graph" =>
                  /\ Cardinality(EnvelopesOfIteration(w)) = 1
                  /\ \A i \in EnvelopesOfIteration(w) :
                        /\ sent[w][i].record.value.protocol = "uniswap_v3"
                        /\ sent[w][i].record.value.data = response[w]
            /\ w = "coingecko" => Cardinality(EnvelopesOfIteration(w)) = 1
            /\ w = "defillama" =>
                  /\ Cardinality(EnvelopesOfIteration(w)) = 3
                  /\ {sent[w][i].record.value.protocol : i \in EnvelopesOfIteration(w)}
                        = {"uniswap-v3", "aave-v3", "compound-v3"}

\* the pool worker finished an iteration whose response listed two pools, and
\* published one Envelope in it
C20_Witness ==
    /\ FinishedOk("the_graph")
    /\ Len(response["the_graph"].data.pools) = 2
    /\ Cardinality(EnvelopesOfIteration("the_graph")) = 1

\* the keys each handler reads with data[...] before anything else
MandatoryKeys(topic) ==
    CASE topic = "subgraph_data" -> {"protocol", "timestamp", "data"}
      [] topic = "price_data" -> {"timestamp", "data"}
      [] topic = "tvl_data" -> {"protocol", "timestamp", "data"}

\* C21: every value a worker hands to the producer carries data and timestamp, and on
\* the pool and TVL topics protocol, so the mandatory lookups of the handler of its
\* topic find their keys.
C21_PublishedValuesHaveWireShape ==
    \A w \in Workers : \A i \in 1..Len(sent[w]) :
        LET r == sent[w][i].record
        IN  /\ r.topic \in Topics
            /\ {"data", "timestamp"} \subseteq DOMAIN r.value
            /\ DOMAIN r.value \subseteq {"data", "timestamp", "protocol"}
            /\ r.topic \in {"subgraph_data", "tvl_data"} => "protocol" \in DOMAIN r.value
            /\ MandatoryKeys(r.topic) \subseteq DOMAIN r.value

\* the TVL worker has published the Envelopes of its three protocols
C21_Witness ==
    /\ Len(sent["defillama"]) >= 3
    /\ sent["defillama"][3].record.topic = "tvl_data"

IterationEnds(w) == pc[w] \in {"fetch", "publish"} /\ pc'[w] = "sleep"

\* C27: every iteration that ends increments exactly one of INGESTION_REQUESTS and
\* INGESTION_ERRORS of its source, by one, whatever the rate limit.
C27_OneCounterPerIteration ==
    [][\A w \in Workers :
          IterationEnds(w) =>
              /\ requests'[w] + ingErrors'[w] = requests[w] + ingErrors[w] + 1
              /\ requests'[w] >= requests[w]
              /\ ingErrors'[w] >= ingErrors[w]]_vars

\* the records of the iteration worker w is in, acknowledged or not
IterationRecords(w) == {i \in 1..Len(sent'[w]) : sent'[w][i].iter = iters[w]}

\* C29 as stated: an iteration that ends counted in INGESTION_ERRORS has put no record
\* on the bus.
C29_FailedIterationPublishedNothing ==
    [][\A w \in Workers :
          (IterationEnds(w) /\ ingErrors'[w] > ingErrors[w]) => IterationRecords(w) = {}]_vars

\* C29 as amended: when an iteration ends counted in INGESTION_ERRORS, the Envelopes of
\* the requests before the failing one have been acknowledged (all of them when the
\* failure is the division by a rate limit of zero), and at most one more record, of
\* the failing request, reached the bus without acknowledgment.
C29_FailedIterationKeepsEarlierEnvelopes ==
    [][\A w \in Workers :
          (IterationEnds(w) /\ ingErrors'[w] > ingErrors[w]) =>
              LET acked == {i \in IterationRecords(w) : sent'[w][i].acked}
              IN  /\ Cardinality(acked) =
                        IF requests'[w] > requests[w] THEN Len(UnitsOf(w)) ELSE unit[w] - 1
                  /\ Cardinality(IterationRecords(w) \ acked) <= 1
                  /\ \A i \in IterationRecords(w) \ acked :
                        /\ pc[w] = "publish"
                        /\ i = Len(sent'[w])]_vars

\* the TVL worker sleeps after an iteration that failed at its second protocol: the
\* Envelope of the first is on the bus
C29_Witness ==
    /\ pc["defillama"] = "sleep" /\ lastIter["defillama"] = "error"
    /\ unit["defillama"] = 2
    /\ \E i \in EnvelopesOfIteration("defillama") : sent["defillama"][i].acked

\* C30: start_ingestion never returns, and once it gathers there is a worker task for
\* every configured source.
C30_WorkerPerSourceNeverReturns ==
    /\ service # "returned"
    /\ service = "gathering" => \A n \in SourceNames : n \in Workers /\ pc[n] # "absent"

----------------------------------------------------------------------------
(* Claims about a handler that raises part-way through an Envelope (FieldSpec) *)

\* C28 as stated: a handling that raised left both sinks as they were.
C28_RaiseLeavesSinksUntouched ==
    [][(Handled /\ last'.raised /\ last'.topic \in {"subgraph_data", "price_data"}) =>
          pg' = pg /\ ch' = ch]_vars

\* the first record of the Envelope Catalog[idx] at which its handler raises
FirstBadItem(idx) ==
    CHOOSE n \in 1..Len(ItemsOf(idx)) :
        /\ "usd" \notin DOMAIN ItemsOf(idx)[n].v
        /\ \A j \in 1..(n - 1) : "usd" \in DOMAIN ItemsOf(idx)[j].v
FirstBadPool(idx) ==
    CHOOSE n \in 1..Len(PoolsOf(idx)) :
        /\ ~PoolFieldsOk(PoolsOf(idx)[n])
        /\ \A j \in 1..(n - 1) : PoolFieldsOk(PoolsOf(idx)[j])

\* C28 as amended: when the price or pool handler raises at the k-th record of an
\* Envelope, the rows (and for pools the points) of records 1..k-1 stay written,
\* nothing is written for records k and later, and the message is counted in
\* PROCESSING_ERRORS.
C28_RaiseKeepsEarlierRecords ==
    [][/\ (Handled /\ last'.raised /\ last'.topic = "price_data") =>
             LET ts == Catalog[last'.idx].value.timestamp
                 k == FirstBadItem(last'.idx)
             IN  /\ procErrors'["price_data"] = procErrors["price_data"] + 1
                 /\ ch' = ch
                 /\ \A n \in 1..(k - 1) :
                       LET new == PriceRow(ItemsOf(last'.idx)[n].k, ItemsOf(last'.idx)[n].v, ts)
                       IN  \E i \in NewPriceRows(new) : pg'.token_prices[i] = new
                 /\ \A n \in k..Len(ItemsOf(last'.idx)) :
                       LET key == <<ItemsOf(last'.idx)[n].k, ts>>
                       IN  {pg'.token_prices[i] : i \in {j \in 1..Len(pg'.token_prices) :
                                                          PriceKey(pg'.token_prices[j]) = key}}
                             = {pg.token_prices[i] : i \in RowsWithPriceKey(key)}
       /\ (Handled /\ last'.raised /\ last'.topic = "subgraph_data") =>
             LET ts == Catalog[last'.idx].value.timestamp
                 k == FirstBadPool(last'.idx)
             IN  /\ procErrors'["subgraph_data"] = procErrors["subgraph_data"] + 1
                 /\ Len(pg'.uniswap_pools) >= Len(pg.uniswap_pools)
                 /\ Len(ch'.pool_metrics) = Len(ch.pool_metrics) + k - 1
                 /\ \A n \in 1..(k - 1) :
                       LET pool == PoolsOf(last'.idx)[n]
                       IN  /\ NewPoolRows(PoolRow(pool, ts)) # {}
                           /\ ch'.pool_metrics[Len(ch.pool_metrics) + n] = PoolPoint(pool, ts)
                 /\ \A n \in (k + 1)..Len(PoolsOf(last'.idx)) :
                       LET new == PoolRow(PoolsOf(last'.idx)[n], ts)
                       IN  {pg'.uniswap_pools[i] : i \in NewPoolRows(new)}
                             = {pg.uniswap_pools[i] : i \in OldPoolRows(new)}]_vars

\* the price Envelope whose second item lacks usd was handled: the handler raised and
\* the row of its first item is there
C28_Witness ==
    /\ last.idx = 12
    /\ last.raised
    /\ \E i \in 1..Len(pg.token_prices) :
          pg.token_prices[i].token_id = "ethereum" /\ pg.token_prices[i].timestamp = 3

----------------------------------------------------------------------------
(* Claims about the loop of start_processing (LoopSpec)                     *)

\* C23: at most one handler invocation is in progress, and a message is pulled only
\* when no handler is in progress, so the writes of two messages never interleave.
C23_OneHandlerAtATime ==
    /\ [](Len(active) <= 1)
    /\ [][Len(active') > Len(active) => active = <<>>]_vars
    /\ [][(pg' # pg \/ ch' # ch) => Len(active) = 1]_vars

\* a handler is at the second record of its Envelope, after an earlier message
C23_Witness ==
    /\ Len(active) = 1
    /\ active[1].k = 2
    /\ deliveries >= 1

\* C24: no message is pulled or handled while the processor has not started, the
\* processor starts only with both stores connected, and cannot start otherwise.
C24_NoDispatchBeforeInit ==
    /\ [](procState = "down" => (active = <<>> /\ deliveries = 0))
    /\ []((procState = "down" /\ ~(pgUp /\ chUp)) => ~ENABLED StartProcessing)
    /\ [][(procState = "down" /\ procState' = "running") => (pgUp /\ chUp)]_vars
    /\ [][(active' # active \/ deliveries' # deliveries) => procState = "running"]_vars

\* the processor started with both stores connected and handled a message
C24_Witness ==
    /\ procState = "running"
    /\ deliveries >= 1
    /\ pgUp /\ chUp

\* C25: a handler that raised is counted in PROCESSING_ERRORS of its topic and not in
\* PROCESSED_MESSAGES, the loop keeps running, and the next message can be pulled.
C25_RaiseDoesNotStopLoop ==
    /\ [][(Handled /\ last'.raised) =>
             /\ procErrors' = [procErrors EXCEPT ![last'.topic] = @ + 1]
             /\ processed' = processed
             /\ procState' = "running"]_vars
    /\ []((procState = "running" /\ active = <<>> /\ deliveries < MaxDeliveries) =>
             \A i \in LoopSet : ENABLED Pull(i))
    /\ [](deliveries > 0 => procState = "running")

\* a message was pulled after the handler of the previous one raised
C25_Witness ==
    /\ last.raised
    /\ Len(active) = 1
    /\ procErrors[last.topic] >= 1

RECURSIVE SumOver(_, _)
SumOver(S, f) ==
    IF S = {} THEN 0
    ELSE LET x == CHOOSE y \in S : TRUE IN f[x] + SumOver(S \ {x}, f)

\* C26: the two counters of a topic never decrease, a message whose dispatch
\* completes increments exactly one counter of its topic by one and nothing else,
\* nothing else changes a counter, and together the counters count the completed
\* dispatches.
C26_CountersCountDispatches ==
    /\ [](SumOver(TopicLabels, processed) + SumOver(TopicLabels, procErrors) = deliveries)
    /\ [][\A t \in TopicLabels :
             /\ processed'[t] >= processed[t]
             /\ procErrors'[t] >= procErrors[t]
             /\ processed'[t] + procErrors'[t] =
                   processed[t] + procErrors[t] + (IF Handled /\ last'.topic = t THEN 1 ELSE 0)]_vars

\* messages of one topic were counted in both counters
C26_Witness ==
    /\ processed["price_data"] >= 1
    /\ procErrors["price_data"] >= 1
    /\ processed["tvl_data"] >= 1

====
